---- MODULE Spec2Model ----
(***************************************************************************)
(* Checkpointed batch-conversion pipelines of layoutlm-pdf-processor.      *)
(*                                                                         *)
(*   pipeline = "pdf" : src/process_drive_pdfs.py, the parallel PDF ->     *)
(*                      page-image converter with its ProcessedCache.      *)
(*   pipeline = "ocr" : src/ocr_processor/Create_LMv3_dataset_with_        *)
(*                      paddleOCR.py, the incremental OCR dataset          *)
(*                      generator with its processed-ids registry.         *)
(*                                                                         *)
(* The two programs are separate scripts; Init chooses which one runs.     *)
(* A process may be killed at any step and be started again (run counts    *)
(* the starts); files and the remote store survive, memory does not.       *)
(***************************************************************************)
EXTENDS Naturals, Integers, Sequences, FiniteSets, TLC

\* ------------------------------------------------------------- bounds
NumPages == 2       \* pages of every PDF
MaxRuns == 2        \* process starts
NumImages == 2      \* images of the OCR corpus, one per numbered folder
MaxBatch == 2       \* largest configured BATCH_SIZE that is tried
MaxFaults == 2      \* environment faults met by the OCR generator, all runs
NumCallers == 2     \* workers that call crear_carpeta with one name and parent
MaxCalls == 3       \* crear_carpeta calls of each of them
NumItems == 5       \* PDFs of the folder handed to one executor
MaxEntries == 6     \* most entries a listed remote folder holds
pageSize == 2       \* entries files().list returns in one page
MaxTasks == 4       \* longest task list handed to dividir_json
MaxPorArchivo == 3  \* largest tasks_por_archivo that is tried
MaxStem == 2        \* longest PDF name (without .pdf) that is tried
MaxBase == 1        \* characters of it kept by the [:100] of line 408
MaxLimite == 2      \* largest MAX_IMAGES that is tried

\* ------------------------------------------- configuration (class Config)
MAX_WORKERS == 4
MAX_RETRIES == 3
RETRY_DELAY == 2
SKIP_EXISTING == TRUE
INCREMENTAL_MODE == TRUE
AUTO_SAVE == TRUE

\* The PDF corpus: two PDFs, handled by two concurrent workers. Workers share
\* only the cache and touch only their own PDF's destination folder.
Pdfs == {1, 2}
Images == 1..NumImages
Pages == 1..NumPages
\* carpetas_meses of the PDF run: the first folder holds every PDF, the
\* second one holds none.
Carpetas == {1, 2}
PdfsOf(f) == IF f = 1 THEN Pdfs ELSE {}

VARIABLES
    pipeline,      \* "pdf" | "ocr": the script that is run
    run,           \* number of the current process start
    exit,          \* "none" while running | "normal" | "error" | "killed" |
                   \* "interrupted"
    flushed,       \* "ok" | "failed" right after a flush step, else "none"
    dirty,         \* an id was marked processed since the last flush attempt
    flushedAtKill, \* ids marked before a successful flush right before a kill
    prevNormal,    \* the previous run ended normally (not killed, no error)
    \* ---- PDF pipeline
    cacheFile,     \* processed_cache.json
    processed,     \* ProcessedCache.processed
    loaded,        \* what _cargar_cache read at this start
    cpc,           \* position of procesar_dataset_completo
    carpeta,       \* index of the folder being processed
    worker,        \* per PDF: the state of its procesar_pdf_worker call
    collected,     \* futures whose result the coordinator has aggregated
    dstFolder,     \* remote: the PDF's destination folder exists
    dstPages,      \* remote: page images present in that folder
    failedBefore,  \* PDFs with a failed page upload in the previous run
    erroredBefore, \* PDFs whose read, conversion or folder creation failed
                   \* in the previous run
    \* ---- OCR generator
    batch_size,          \* Config.BATCH_SIZE of this installation
    regFile,             \* processed_images.json
    resFile,             \* recibos_label_studio.json
    processed_images,    \* LabelStudioDatasetGenerator.processed_images
    nuevas_procesadas,   \* generar_dataset's local set
    label_studio_tasks,  \* generar_dataset's local list
    total_imagenes,      \* generar_dataset's local counter
    opc,                 \* position of main / generar_dataset
    idx,                 \* index of the numbered folder (and image) at hand
    imagen,              \* per image: outcome and OCR invocations of this run
    faults,              \* environment faults met so far (kills, failed writes,
                         \* failed remote calls, OCR exceptions)
    \* ---- single operations, exercised on their own
    aviso,               \* what loading the checkpoint printed: "none" before
                         \* the load | "silencio" | "advertencia"
    carpetasRemotas,     \* remote: ids of the folders of one name under one
                         \* parent
    llamada,             \* per caller of crear_carpeta: its position, its
                         \* folder_cache entry, what its last call returned
    archivos,            \* remote: per page name, the number of files of that
                         \* name in one PDF's destination folder
    subida,              \* the upload loop of that PDF: position, page,
                         \* attempt, exitos
    lock,                \* ProcessedCache.lock: the threads inside a
                         \* `with self.lock` block
    marcador,            \* per worker thread: position of its marcar_procesado
    volcador,            \* the thread that calls guardar_cache: position,
                         \* iteration cursor, ids copied so far
    antes,               \* ids whose marcar_procesado had returned when
                         \* guardar_cache was called
    instantes,           \* values of ProcessedCache.processed since then
    reintento,           \* one call of a retrying remote operation: position,
                         \* attempts made, sleeps taken, what it returned
    \* ---- the executor of one folder on its own
    pool,                \* threads started, and each submitted task's state
    listado,  \* one call of a list operation: position, page token, entries gathered
    division,  \* dividir_json: the tasks read, the loop index, the batch files written
    gemelos,  \* two PDFs of one source folder: names, workers, destination folders, ids marked
    limite   \* generar_dataset under MAX_IMAGES: position in the loops, counters, per-image state

pdfVars == <<cacheFile, processed, loaded, cpc, carpeta, worker, collected,
             dstFolder, dstPages, failedBefore, erroredBefore>>
ocrVars == <<batch_size, regFile, resFile, processed_images, nuevas_procesadas,
             label_studio_tasks, total_imagenes, opc, idx, imagen, faults>>
runVars == <<pipeline, run, exit, flushed, dirty, flushedAtKill, prevNormal>>
cargaVars == <<aviso>>
carpetaVars == <<carpetasRemotas, llamada>>
subidaVars == <<archivos, subida>>
lockVars == <<lock, marcador, volcador, antes, instantes>>
reintentoVars == <<reintento>>
poolVars == <<pool>>
listadoVars == <<listado>>
divisionVars == <<division>>
gemelosVars == <<gemelos>>
limiteVars == <<limite>>
opVars == <<cargaVars, carpetaVars, subidaVars, lockVars, reintentoVars, poolVars, listadoVars, divisionVars, gemelosVars, limiteVars>>
vars == <<runVars, pdfVars, ocrVars, opVars>>

\* ------------------------------------------------------------- files
Absent == [kind |-> "absent", ids |-> {}]
Corrupt == [kind |-> "corrupt", ids |-> {}]
IdFile(s) == [kind |-> "ok", ids |-> s]

\* Files that json.load accepts but that are not what the save wrote:
\*   "lista"    the top-level value is an array (ids: its elements)
\*   "sinclave" an object without the key of the id list
\*   "texto"    an object whose key holds a string (ids: its characters)
\*   "numero"   an object whose key holds a number or null
Letras == {101, 102}      \* characters, never equal to an id
Lista(s) == [kind |-> "lista", ids |-> s]
SinClave == [kind |-> "sinclave", ids |-> {}]
Texto(s) == [kind |-> "texto", ids |-> s]
Numero == [kind |-> "numero", ids |-> {}]
Shapes(Ids) ==
    {Absent, Corrupt, SinClave, Numero}
      \cup {IdFile(s) : s \in SUBSET Ids}
      \cup {Lista(s) : s \in SUBSET Ids}
      \cup {Texto(s) : s \in SUBSET Letras \ {{}}}

\* set(data.get(key, [])): the elements of a list, the characters of a
\* string, the default [] without the key; everything else raises
SetOfKey(file) == IF file.kind \in {"ok", "texto"} THEN file.ids ELSE {}

\* the loaders' except Exception branch: json.load fails, an array has no
\* .get, set() of a number raises TypeError
CargaFalla(file) == file.kind \in {"corrupt", "lista", "numero"}

\* _cargar_cache: a missing file and a failed load give the empty set
CargarCache(file) ==
    IF file.kind = "absent" \/ CargaFalla(file) THEN {} ELSE SetOfKey(file)

\* open(path, 'w') followed by json.dump: the file is truncated in place
\* before the new content is written. The write completes, or open() fails
\* (file untouched), or the dump fails after the truncation.
WriteInPlace(old, new) ==
    { [file |-> new, ok |-> TRUE],
      [file |-> old, ok |-> FALSE],
      [file |-> Corrupt, ok |-> FALSE] }

\* What a flush hands back to its caller. guardar_cache,
\* _guardar_registro_procesadas and _guardar_progreso_completo catch the
\* exception of a failed write, print it, and fall off their end: the caller
\* gets None whether the write succeeded (ok) or not.
FlushResult(ok) == "None"

\* ------------------------------------------------------- retry loops
\* for attempt in range(max_retries): try ... return value
\*   except: if attempt < max_retries - 1: sleep(2 ** attempt) else: return None
\* fails = number of consecutive failing calls the remote store answers with.
RECURSIVE RetryLoop(_, _, _)
RetryLoop(attempt, max_retries, fails) ==
    IF attempt >= max_retries
    THEN [ok |-> FALSE, attempts |-> attempt]
    ELSE IF attempt >= fails
         THEN [ok |-> TRUE, attempts |-> attempt + 1]
         ELSE IF attempt < max_retries - 1
              THEN RetryLoop(attempt + 1, max_retries, fails)
              ELSE [ok |-> FALSE, attempts |-> attempt + 1]

\* a retry loop that gives up one attempt early
leer_un_intento_menos(max_retries, fails) == RetryLoop(0, max_retries - 1, fails)

leer_archivo_en_memoria(max_retries, fails) == RetryLoop(0, max_retries, fails)
subir_archivo_desde_memoria(max_retries, fails) == RetryLoop(0, max_retries, fails)

Fails == 0..(MAX_RETRIES + 1)
NoCall == [op |-> "none", fails |-> 0, attempts |-> 0, ok |-> FALSE]
Call(op, fails, r) == [op |-> op, fails |-> fails, attempts |-> r.attempts, ok |-> r.ok]

\* ------------------------------------------------------------ worker
\* resultado: "none" (running) | "skipped" | "ok" | "error" | "raised"
WorkerInit == [pc |-> "idle", page |-> 1, exitos |-> 0, resultado |-> "none",
               error |-> "", call |-> NoCall, upFailed |-> FALSE, transforms |-> 0]

Outcome(i) ==
    CASE worker[i].resultado = "skipped" -> "Skipped"
      [] worker[i].resultado = "ok" -> "Succeeded"
      [] worker[i].resultado \in {"error", "raised"} -> "Failed"
      [] OTHER -> "none"

Running == {"read", "mkdir", "upload"}

esta_procesado(i) == i \in processed

\* a mark that replaces the set instead of adding to it
marcar_solo(set, i) == {i}

\* cache.marcar_procesado
marcar_procesado(set, i) == set \cup {i}

Finish(i, res, err, w) ==
    [w EXCEPT !.pc = "done", !.resultado = res, !.error = err]

\* the reasons of a failed read, conversion and folder creation
EarlyErrors == {"No se pudo leer", "No se pudo convertir", "No se pudo crear carpeta"}

\* lines 383-416: client construction, cache check, destination-folder check
WorkerCheck(i) ==
    /\ pipeline = "pdf" /\ cpc = "exec"
    /\ worker[i].pc = "queued"
    /\ Cardinality({j \in Pdfs : worker[j].pc \in Running}) < MAX_WORKERS
    /\ \/ \* GoogleDriveManager(credentials) raises outside the try
          /\ worker' = [worker EXCEPT ![i] = Finish(i, "raised", "build", @)]
          /\ UNCHANGED <<processed, dirty>>
       \/ /\ SKIP_EXISTING /\ esta_procesado(i)
          /\ worker' = [worker EXCEPT ![i] = Finish(i, "skipped", "", @)]
          /\ UNCHANGED <<processed, dirty>>
       \/ /\ ~(SKIP_EXISTING /\ esta_procesado(i))
          /\ \/ \* verificar_carpeta_existe raises: except Exception
                /\ worker' = [worker EXCEPT ![i] = Finish(i, "error", "exception", @)]
                /\ UNCHANGED <<processed, dirty>>
             \/ /\ SKIP_EXISTING /\ dstFolder[i]
                /\ processed' = marcar_procesado(processed, i)
                /\ dirty' = TRUE
                /\ worker' = [worker EXCEPT ![i] = Finish(i, "skipped", "", @)]
             \/ /\ ~(SKIP_EXISTING /\ dstFolder[i])
                /\ worker' = [worker EXCEPT ![i].pc = "read"]
                /\ UNCHANGED <<processed, dirty>>
    /\ flushed' = "none"
    /\ UNCHANGED <<pipeline, run, exit, flushedAtKill, prevNormal>>
    /\ UNCHANGED <<cacheFile, loaded, cpc, carpeta, collected, dstFolder,
                   dstPages, failedBefore,
                   erroredBefore>>
    /\ UNCHANGED <<ocrVars, opVars>>

\* lines 418-430: read with retries, then convert
WorkerRead(i) ==
    /\ pipeline = "pdf" /\ cpc = "exec"
    /\ worker[i].pc = "read"
    /\ \E fails \in Fails :
         LET r == leer_archivo_en_memoria(MAX_RETRIES, fails)
             c == Call("read", fails, r)
         IN IF ~r.ok
            THEN worker' = [worker EXCEPT ![i] =
                     Finish(i, "error", "No se pudo leer", [@ EXCEPT !.call = c])]
            ELSE \/ \* convert_pdf_bytes_to_images returns the page images
                    worker' = [worker EXCEPT ![i] =
                        [@ EXCEPT !.pc = "mkdir", !.call = c, !.transforms = 1]]
                 \/ \* the conversion fails: empty list
                    worker' = [worker EXCEPT ![i] =
                        Finish(i, "error", "No se pudo convertir",
                               [@ EXCEPT !.call = c, !.transforms = 1])]
    /\ flushed' = "none"
    /\ UNCHANGED <<pipeline, run, exit, dirty, flushedAtKill, prevNormal>>
    /\ UNCHANGED <<cacheFile, processed, loaded, cpc, carpeta, collected,
                   dstFolder, dstPages, failedBefore,
                   erroredBefore>>
    /\ UNCHANGED <<ocrVars, opVars>>

\* lines 432-436: crear_carpeta
WorkerMkdir(i) ==
    /\ pipeline = "pdf" /\ cpc = "exec"
    /\ worker[i].pc = "mkdir"
    /\ \/ /\ dstFolder' = [dstFolder EXCEPT ![i] = TRUE]
          /\ worker' = [worker EXCEPT ![i].pc = "upload"]
       \/ \* a Drive call of crear_carpeta raises (except Exception) or no id
          \* comes back; a create request that raises may have been carried
          \* out by the remote store all the same
          /\ worker' = [worker EXCEPT ![i] =
                           Finish(i, "error", "No se pudo crear carpeta", @)]
          /\ dstFolder' \in {dstFolder, [dstFolder EXCEPT ![i] = TRUE]}
    /\ flushed' = "none"
    /\ UNCHANGED <<pipeline, run, exit, dirty, flushedAtKill, prevNormal>>
    /\ UNCHANGED <<cacheFile, processed, loaded, cpc, carpeta, collected,
                   dstPages, failedBefore,
                   erroredBefore>>
    /\ UNCHANGED <<ocrVars, opVars>>

\* a decision that is content with one uploaded page
MarkAfterAnyUpload(exitos, total) == exitos >= 1

\* lines 452-456: the decision after the upload loop
MarkAfterUploads(exitos, total) == exitos = total

\* lines 438-456: one page upload; after the last one the item is resolved
WorkerUpload(i) ==
    /\ pipeline = "pdf" /\ cpc = "exec"
    /\ worker[i].pc = "upload"
    /\ \E fails \in Fails :
         LET w == worker[i]
             r == subir_archivo_desde_memoria(MAX_RETRIES, fails)
             c == Call("upload", fails, r)
             ex == IF r.ok THEN w.exitos + 1 ELSE w.exitos
             w1 == [w EXCEPT !.call = c, !.exitos = ex,
                             !.upFailed = w.upFailed \/ ~r.ok]
         IN /\ dstPages' = [dstPages EXCEPT ![i] =
                               IF r.ok THEN @ \cup {w.page} ELSE @]
            /\ IF w.page < NumPages
               THEN /\ worker' = [worker EXCEPT ![i] = [w1 EXCEPT !.page = w.page + 1]]
                    /\ UNCHANGED <<processed, dirty>>
               ELSE IF MarkAfterUploads(ex, NumPages)
                    THEN /\ worker' = [worker EXCEPT ![i] = Finish(i, "ok", "", w1)]
                         /\ processed' = marcar_procesado(processed, i)
                         /\ dirty' = TRUE
                    ELSE /\ worker' = [worker EXCEPT ![i] = Finish(i, "error", "Solo", w1)]
                         /\ UNCHANGED <<processed, dirty>>
    /\ flushed' = "none"
    /\ UNCHANGED <<pipeline, run, exit, flushedAtKill, prevNormal>>
    /\ UNCHANGED <<cacheFile, loaded, cpc, carpeta, collected, dstFolder,
                   failedBefore, erroredBefore>>
    /\ UNCHANGED <<ocrVars, opVars>>

\* ------------------------------------------------------- coordinator
\* main lines 632-634 and procesar_dataset_completo lines 509-519: build the
\* processor (loads the cache), create the root folder, list the folders
PdfStart ==
    /\ pipeline = "pdf" /\ cpc = "init"
    /\ processed' = CargarCache(cacheFile)
    /\ loaded' = CargarCache(cacheFile)
    /\ \/ /\ cpc' = "carpeta" /\ exit' = "none"
       \/ \* crear_carpeta / listar_carpetas raises: main's except Exception
          /\ cpc' = "exited" /\ exit' = "error"
    /\ flushed' = "none"
    /\ UNCHANGED <<pipeline, run, dirty, flushedAtKill, prevNormal>>
    /\ UNCHANGED <<cacheFile, carpeta, worker, collected, dstFolder, dstPages,
                   failedBefore,
                   erroredBefore>>
    /\ UNCHANGED <<ocrVars, opVars>>

NextCarpeta ==
    IF carpeta + 1 \in Carpetas
    THEN /\ cpc' = "carpeta" /\ carpeta' = carpeta + 1 /\ exit' = "none"
    ELSE /\ cpc' = "exited" /\ carpeta' = carpeta /\ exit' = "normal"

\* lines 522-557: crear_carpeta, listar_pdfs, submit one task per PDF
PdfCarpeta ==
    /\ pipeline = "pdf" /\ cpc = "carpeta"
    /\ \/ \* crear_carpeta or listar_pdfs raises: main's except Exception
          /\ cpc' = "exited" /\ exit' = "error"
          /\ UNCHANGED <<carpeta, worker>>
       \/ /\ PdfsOf(carpeta) = {}
          /\ NextCarpeta
          /\ UNCHANGED worker
       \/ /\ PdfsOf(carpeta) # {}
          /\ cpc' = "exec"
          /\ worker' = [i \in Pdfs |->
                          IF i \in PdfsOf(carpeta)
                          THEN [worker[i] EXCEPT !.pc = "queued"]
                          ELSE worker[i]]
          /\ UNCHANGED <<carpeta, exit>>
    /\ flushed' = "none"
    /\ UNCHANGED <<pipeline, run, dirty, flushedAtKill, prevNormal>>
    /\ UNCHANGED <<cacheFile, processed, loaded, collected, dstFolder, dstPages,
                   failedBefore,
                   erroredBefore>>
    /\ UNCHANGED <<ocrVars, opVars>>

\* leaving the executor block as soon as one future has been consumed
UnoRecogido(c, col) == TRUE

\* line 559 and the end of the `with ThreadPoolExecutor` block of line 549:
\* as_completed has yielded every future of the folder, and the executor's
\* shutdown(wait=True) has joined the worker threads
TodosRecogidos(c, col) == PdfsOf(c) \subseteq col

\* lines 559-579: as_completed hands over one finished future
PdfCollect(i) ==
    /\ pipeline = "pdf" /\ cpc = "exec"
    /\ worker[i].pc = "done" /\ i \notin collected
    /\ collected' = collected \cup {i}
    /\ cpc' = IF TodosRecogidos(carpeta, collected') THEN "flush" ELSE "exec"
    /\ flushed' = "none"
    /\ UNCHANGED <<pipeline, run, exit, dirty, flushedAtKill, prevNormal>>
    /\ \* the worker's frame is gone once its result has been consumed
       worker' = [worker EXCEPT ![i].call = NoCall, ![i].exitos = 0]
    /\ UNCHANGED <<cacheFile, processed, loaded, carpeta, dstFolder,
                   dstPages, failedBefore, erroredBefore>>
    /\ UNCHANGED <<ocrVars, opVars>>

\* lines 561-579, the statistics of the run. A worker's result dictionary
\* is counted by its flags; a future whose result() raises is counted in
\* pdfs_con_error by the except branch, which appends nothing to errores.
pdfs_skip == Cardinality({i \in collected : worker[i].resultado = "skipped"})
pdfs_procesados == Cardinality({i \in collected : worker[i].resultado = "ok"})
\* a count of failures that leaves out the except branch of lines 577-579
pdfs_con_error_sin_except ==
    Cardinality({i \in collected : worker[i].resultado = "error"})
pdfs_con_error ==
    Cardinality({i \in collected : worker[i].resultado \in {"error", "raised"}})
\* futures: the tasks submitted in this run (lines 551-557)
futures == {i \in Pdfs : worker[i].pc # "idle"}
\* stats['errores']: the PDFs with a "name: reason" entry
errores == {i \in collected : worker[i].resultado = "error"}

\* ProcessedCache.guardar_cache, called at line 584 after every folder
guardar_cache ==
    /\ pipeline = "pdf" /\ cpc = "flush"
    /\ \E w \in WriteInPlace(cacheFile, IdFile(processed)) :
         /\ cacheFile' = w.file
         /\ flushed' = IF w.ok THEN "ok" ELSE "failed"
    /\ dirty' = FALSE
    /\ NextCarpeta
    /\ UNCHANGED <<pipeline, run, flushedAtKill, prevNormal>>
    /\ UNCHANGED <<processed, loaded, worker, collected, dstFolder, dstPages,
                   failedBefore,
                   erroredBefore>>
    /\ UNCHANGED <<ocrVars, opVars>>

\* ------------------------------------------------- kill and restart
Alive == exit = "none"

\* the process is killed (signal, power loss); a kill that falls into the
\* write of guardar_cache leaves the truncated file behind
PdfKill ==
    /\ pipeline = "pdf" /\ Alive /\ cpc # "init"
    /\ cpc' = "exited" /\ exit' = "killed"
    /\ \/ UNCHANGED cacheFile
       \/ cpc = "flush" /\ cacheFile' = Corrupt
    /\ flushedAtKill' = IF flushed = "ok" THEN processed ELSE {}
    /\ flushed' = "none"
    /\ UNCHANGED <<pipeline, run, dirty, prevNormal>>
    /\ UNCHANGED <<processed, loaded, carpeta, worker, collected, dstFolder,
                   dstPages, failedBefore,
                   erroredBefore>>
    /\ UNCHANGED <<ocrVars, opVars>>

\* main lines 639-640: KeyboardInterrupt reaches main's handler, which prints
\* and returns. Raised while the executor is open, it first passes the
\* `with ThreadPoolExecutor` exit, which waits for the submitted workers.
PdfInterrupt ==
    /\ pipeline = "pdf" /\ Alive /\ cpc \in {"carpeta", "exec"}
    /\ cpc = "exec" => \A i \in PdfsOf(carpeta) : worker[i].pc = "done"
    /\ cpc' = "exited" /\ exit' = "interrupted"
    /\ flushed' = "none"
    /\ UNCHANGED <<pipeline, run, dirty, flushedAtKill, prevNormal>>
    /\ UNCHANGED <<cacheFile, processed, loaded, carpeta, worker, collected,
                   dstFolder, dstPages, failedBefore,
                   erroredBefore>>
    /\ UNCHANGED <<ocrVars, opVars>>

\* the script is started again
PdfRestart ==
    /\ pipeline = "pdf" /\ ~Alive /\ run < MaxRuns
    /\ run' = run + 1
    /\ prevNormal' = (exit = "normal")
    /\ exit' = "none"
    /\ cpc' = "init" /\ carpeta' = 1
    /\ processed' = {} /\ loaded' = {}
    /\ failedBefore' = {i \in Pdfs : worker[i].upFailed}
    /\ erroredBefore' = {i \in Pdfs : worker[i].error \in EarlyErrors}
    /\ worker' = [i \in Pdfs |-> WorkerInit]
    /\ collected' = {}
    /\ flushed' = "none" /\ dirty' = FALSE
    /\ flushedAtKill' = IF exit = "killed" THEN flushedAtKill ELSE {}
    /\ UNCHANGED <<pipeline, cacheFile, dstFolder, dstPages>>
    /\ UNCHANGED <<ocrVars, opVars>>

\* ==================================================== OCR generator
AbsentRes == [kind |-> "absent", recs |-> <<>>]
CorruptRes == [kind |-> "corrupt", recs |-> <<>>]
ResFile(q) == [kind |-> "ok", recs |-> q]

\* open(output_file, 'w') followed by json.dump, as WriteInPlace
WriteResInPlace(old, new) ==
    { [file |-> new, ok |-> TRUE],
      [file |-> old, ok |-> FALSE],
      [file |-> CorruptRes, ok |-> FALSE] }

\* _cargar_registro_procesadas
CargarRegistro(file) ==
    IF ~INCREMENTAL_MODE \/ file.kind = "absent" \/ CargaFalla(file)
    THEN {} ELSE SetOfKey(file)

\* json.load of the result file inside try/except: unreadable gives []
CargarTareas(file) == IF file.kind = "ok" THEN file.recs ELSE <<>>

\* A result record: the image it belongs to, and whether its meta carries
\* 'image_id' (procesar_imagen's except branch writes meta without it).
Rec(i, r) == [id |-> i, has_id |-> (r = "ok")]

ImagenInit == [outcome |-> "none", ocr |-> 0]

\* records of the result file owned by image i
Count(i, recs) == Cardinality({k \in DOMAIN recs : recs[k].id = i})

\* lines 549-552: merge of _guardar_progreso_completo
ExistingIds(existing) ==
    {existing[k].id : k \in {j \in DOMAIN existing : existing[j].has_id}}
MergeProgreso(existing, tasks) ==
    existing \o SelectSeq(tasks, LAMBDA t : t.id \notin ExistingIds(existing))

\* line 578: merge of guardar_dataset
MergeDataset(existing, tasks) == existing \o tasks

\* the loops of generar_dataset move on to the next numbered folder
Avanzar ==
    IF idx < NumImages
    THEN /\ idx' = idx + 1 /\ opc' = "imagen"
    ELSE /\ idx' = idx /\ opc' = "finalReg"

\* the environment of the OCR generator misbehaves at most MaxFaults times
Falla(f) == IF f THEN faults < MaxFaults /\ faults' = faults + 1
                 ELSE faults' = faults

\* main lines 628-630, __init__ and generar_dataset lines 404-420
OcrStart ==
    /\ pipeline = "ocr" /\ opc = "init"
    /\ processed_images' = CargarRegistro(regFile)
    /\ \/ /\ opc' = "imagen" /\ exit' = "none" /\ Falla(FALSE)
       \/ \* encontrar_carpeta_imagenes returns None: return [], "No se generaron tareas"
          /\ opc' = "exited" /\ exit' = "normal" /\ Falla(TRUE)
       \/ \* an exception other than HttpError: main's except Exception
          /\ opc' = "exited" /\ exit' = "error" /\ Falla(TRUE)
    /\ flushed' = "none"
    /\ UNCHANGED <<pipeline, run, dirty, flushedAtKill, prevNormal>>
    /\ UNCHANGED <<batch_size, regFile, resFile, nuevas_procesadas,
                   label_studio_tasks, total_imagenes, idx, imagen>>
    /\ UNCHANGED <<pdfVars, opVars>>

\* line 488: the auto-save condition
AutoSaveDue(total) == AUTO_SAVE /\ total % batch_size = 0

\* a skip test that never recognises a registered image
EsSaltadaNunca(i) == FALSE

\* lines 456-458: the incremental skip
EsSaltada(i) == INCREMENTAL_MODE /\ i \in processed_images

\* lines 454-493: one image
OcrUnaImagen ==
    /\ IF EsSaltada(idx)
       THEN /\ imagen' = [imagen EXCEPT ![idx].outcome = "Skipped"]
            /\ Avanzar /\ Falla(FALSE)
            /\ UNCHANGED <<label_studio_tasks, nuevas_procesadas, total_imagenes,
                           dirty, exit>>
       ELSE \/ \* descargar_imagen_en_memoria returns None
               /\ imagen' = [imagen EXCEPT ![idx].outcome = "Failed"]
               /\ Avanzar /\ Falla(TRUE)
               /\ UNCHANGED <<label_studio_tasks, nuevas_procesadas, total_imagenes,
                              dirty, exit>>
            \/ \* procesar_imagen returns a task with meta: the OCR result
               \* ("ok") or, from its except branch, the error ("err")
               \E r \in {"ok", "err"} :
                 /\ label_studio_tasks' = Append(label_studio_tasks, Rec(idx, r))
                 /\ nuevas_procesadas' = nuevas_procesadas \cup {idx}
                 /\ total_imagenes' = total_imagenes + 1
                 /\ imagen' = [imagen EXCEPT ![idx] =
                        [outcome |-> IF r = "ok" THEN "Succeeded" ELSE "Failed",
                         ocr |-> 1]]
                 /\ dirty' = TRUE
                 /\ IF AutoSaveDue(total_imagenes + 1)
                    THEN opc' = "saveReg" /\ idx' = idx
                    ELSE Avanzar
                 /\ Falla(r = "err")
                 /\ UNCHANGED exit
            \/ \* no detections: the task has no 'meta', line 477 raises KeyError
               /\ imagen' = [imagen EXCEPT ![idx] = [outcome |-> "Failed", ocr |-> 1]]
               /\ opc' = "exited" /\ exit' = "error" /\ Falla(FALSE)
               /\ UNCHANGED <<label_studio_tasks, nuevas_procesadas, total_imagenes,
                              dirty, idx>>

\* lines 441-493: one numbered folder (listar_imagenes) and its image
OcrImagen ==
    /\ pipeline = "ocr" /\ opc = "imagen"
    /\ \/ \* listar_imagenes catches HttpError: an empty listing, `continue`
          /\ Avanzar /\ Falla(TRUE)
          /\ UNCHANGED <<label_studio_tasks, nuevas_procesadas, total_imagenes,
                         dirty, exit, imagen>>
       \/ \* any other exception leaves generar_dataset: main's except Exception
          /\ opc' = "exited" /\ exit' = "error" /\ Falla(TRUE)
          /\ UNCHANGED <<label_studio_tasks, nuevas_procesadas, total_imagenes,
                         dirty, idx, imagen>>
       \/ OcrUnaImagen
    /\ flushed' = "none"
    /\ UNCHANGED <<pipeline, run, flushedAtKill, prevNormal>>
    /\ UNCHANGED <<batch_size, regFile, resFile, processed_images>>
    /\ UNCHANGED <<pdfVars, opVars>>

\* _guardar_progreso_completo lines 532-534, _guardar_registro_procesadas
OcrSaveReg ==
    /\ pipeline = "ocr" /\ opc = "saveReg"
    /\ \E w \in WriteInPlace(regFile, IdFile(processed_images \cup nuevas_procesadas)) :
         /\ regFile' = w.file
         /\ flushed' = IF w.ok THEN "ok" ELSE "failed"
         /\ Falla(~w.ok)
    /\ dirty' = FALSE
    /\ opc' = "saveRes"
    /\ UNCHANGED <<pipeline, run, exit, flushedAtKill, prevNormal>>
    /\ UNCHANGED <<batch_size, resFile, processed_images, nuevas_procesadas,
                   label_studio_tasks, total_imagenes, idx, imagen>>
    /\ UNCHANGED <<pdfVars, opVars>>

\* _guardar_progreso_completo lines 536-561
OcrSaveRes ==
    /\ pipeline = "ocr" /\ opc = "saveRes"
    /\ IF \E k \in DOMAIN label_studio_tasks : ~label_studio_tasks[k].has_id
       THEN \* t['meta']['image_id'] raises KeyError: except Exception, nothing written
            /\ UNCHANGED resFile
            /\ flushed' = "failed"
            /\ Falla(FALSE)
       ELSE \E w \in WriteResInPlace(resFile,
                       ResFile(MergeProgreso(CargarTareas(resFile), label_studio_tasks))) :
              /\ resFile' = w.file
              /\ flushed' = IF w.ok /\ flushed = "ok" THEN "ok" ELSE "failed"
              /\ Falla(~w.ok)
    /\ Avanzar
    /\ UNCHANGED <<pipeline, run, exit, dirty, flushedAtKill, prevNormal>>
    /\ UNCHANGED <<batch_size, regFile, processed_images, nuevas_procesadas,
                   label_studio_tasks, total_imagenes, imagen>>
    /\ UNCHANGED <<pdfVars, opVars>>

\* generar_dataset lines 510-516 and main lines 632-634
OcrFinalReg ==
    /\ pipeline = "ocr" /\ opc = "finalReg"
    /\ IF INCREMENTAL_MODE
       THEN /\ processed_images' = processed_images \cup nuevas_procesadas
            /\ \E w \in WriteInPlace(regFile, IdFile(processed_images')) :
                 /\ regFile' = w.file
                 /\ flushed' = IF w.ok THEN "ok" ELSE "failed"
                 /\ Falla(~w.ok)
            /\ dirty' = FALSE
       ELSE /\ flushed' = "none"
            /\ UNCHANGED <<processed_images, regFile, dirty, faults>>
    /\ IF label_studio_tasks = <<>>
       THEN opc' = "exited" /\ exit' = "normal"
       ELSE opc' = "guardar" /\ exit' = "none"
    /\ UNCHANGED <<pipeline, run, flushedAtKill, prevNormal>>
    /\ UNCHANGED <<batch_size, resFile, nuevas_procesadas, label_studio_tasks,
                   total_imagenes, idx, imagen>>
    /\ UNCHANGED <<pdfVars, opVars>>

\* guardar_dataset, called at main line 636
guardar_dataset ==
    /\ pipeline = "ocr" /\ opc = "guardar"
    /\ LET existing == IF INCREMENTAL_MODE THEN CargarTareas(resFile) ELSE <<>>
       IN \E w \in WriteResInPlace(resFile,
                     ResFile(MergeDataset(existing, label_studio_tasks))) :
            /\ resFile' = w.file
            /\ Falla(~w.ok)
            /\ IF w.ok
               THEN /\ opc' = "fin" /\ exit' = "none"
                    /\ flushed' = IF flushed = "ok" THEN "ok" ELSE "failed"
               ELSE \* the write raises: main's except Exception
                    /\ opc' = "exited" /\ exit' = "error"
                    /\ flushed' = "failed"
    /\ UNCHANGED <<pipeline, run, dirty, flushedAtKill, prevNormal>>
    /\ UNCHANGED <<batch_size, regFile, processed_images, nuevas_procesadas,
                   label_studio_tasks, total_imagenes, idx, imagen>>
    /\ UNCHANGED <<pdfVars, opVars>>

\* main lines 638-643: the closing messages
OcrFin ==
    /\ pipeline = "ocr" /\ opc = "fin"
    /\ opc' = "exited" /\ exit' = "normal"
    /\ flushed' = "none"
    /\ UNCHANGED <<pipeline, run, dirty, flushedAtKill, prevNormal>>
    /\ UNCHANGED <<batch_size, regFile, resFile, processed_images, faults,
                   nuevas_procesadas, label_studio_tasks, total_imagenes, idx, imagen>>
    /\ UNCHANGED <<pdfVars, opVars>>

\* a flush (auto-save or end-of-run save) has just returned
FlushReturned == flushed # "none" /\ opc \notin {"saveRes", "guardar"}

\* the process is killed; a kill that falls into a write leaves the
\* truncated file behind
OcrKill ==
    /\ pipeline = "ocr" /\ Alive /\ opc # "init"
    /\ opc' = "exited" /\ exit' = "killed" /\ Falla(TRUE)
    /\ \/ /\ UNCHANGED <<regFile, resFile>>
          /\ flushedAtKill' = IF FlushReturned /\ flushed = "ok"
                              THEN processed_images \cup nuevas_procesadas ELSE {}
       \/ /\ opc \in {"saveReg", "finalReg"} /\ regFile' = Corrupt
          /\ UNCHANGED resFile /\ flushedAtKill' = {}
       \/ /\ opc \in {"saveRes", "guardar"} /\ resFile' = CorruptRes
          /\ UNCHANGED regFile /\ flushedAtKill' = {}
    /\ flushed' = "none"
    /\ UNCHANGED <<pipeline, run, dirty, prevNormal>>
    /\ UNCHANGED <<batch_size, processed_images, nuevas_procesadas,
                   label_studio_tasks, total_imagenes, idx, imagen>>
    /\ UNCHANGED <<pdfVars, opVars>>

\* main lines 645-646: KeyboardInterrupt reaches main's handler, which prints
\* and returns
OcrInterrupt ==
    /\ pipeline = "ocr" /\ Alive /\ opc # "init"
    /\ opc' = "exited" /\ exit' = "interrupted" /\ Falla(TRUE)
    /\ flushed' = "none"
    /\ UNCHANGED <<pipeline, run, dirty, flushedAtKill, prevNormal>>
    /\ UNCHANGED <<batch_size, regFile, resFile, processed_images,
                   nuevas_procesadas, label_studio_tasks, total_imagenes, idx, imagen>>
    /\ UNCHANGED <<pdfVars, opVars>>

\* the script is started again
OcrRestart ==
    /\ pipeline = "ocr" /\ ~Alive /\ run < MaxRuns
    /\ run' = run + 1
    /\ prevNormal' = (exit = "normal")
    /\ exit' = "none"
    /\ opc' = "init" /\ idx' = 1
    /\ processed_images' = {} /\ nuevas_procesadas' = {}
    /\ label_studio_tasks' = <<>> /\ total_imagenes' = 0
    /\ imagen' = [i \in Images |-> ImagenInit]
    /\ flushed' = "none" /\ dirty' = FALSE
    /\ flushedAtKill' = IF exit = "killed" THEN flushedAtKill ELSE {}
    /\ UNCHANGED <<pipeline, batch_size, regFile, resFile, faults>>
    /\ UNCHANGED <<pdfVars, opVars>>

\* ------------------------------------------------------ crear_carpeta
\* Each caller is a worker with a GoogleDriveManager of its own (line 386),
\* hence a folder_cache of its own. NoId: no entry, nothing returned.
Callers == 1..NumCallers
NoId == 0
LlamadaInit == [pc |-> "idle", cache |-> NoId, ret |-> NoId, calls |-> 0]

\* ------------------------------------------------- the upload loop
\* pc: "subir" in the loop of lines 440-450 | "ok" | "error" after line 452 |
\* "skipped" once a later run has met the destination folder
SubidaInit == [pc |-> "subir", page |-> 1, attempt |-> 0, exitos |-> 0]

\* ------------------------------------------------- ProcessedCache.lock
\* The thread of procesar_dataset_completo, next to the worker threads Pdfs
Coordinador == 0
VolcadorInit == [pc |-> "idle", cursor |-> 1, copia |-> {}]

\* an acquire that does not wait for the holder
LockIgnored(holders) == TRUE

\* `with self.lock`: threading.Lock is acquired when no thread holds it
LockFree(holders) == holders = {}

\* ------------------------------------------ one retrying remote call
\* tipo: what the remote store answers a failing attempt with, "transient"
\* (rate limit, network), "not_found" (HttpError 404) or "invalid" (HttpError
\* 400); no repetition cures the last two. fallos: the attempts that fail
\* before one succeeds
ReintentoInit == [pc |-> "idle", op |-> "none", tipo |-> "transient", fallos |-> 0,
                  max_retries |-> 0, attempt |-> 0, ok |-> FALSE, esperas |-> <<>>]

\* ------------------------------------------- the executor of a folder
\* the PDFs of a folder larger than the pool, in the order of pdfs (line 540)
Items == 1..NumItems
\* tarea: "none" (not submitted yet) | "queued" | "running" | "done"
PoolInit == [hilos |-> 0, tarea |-> [i \in Items |-> "none"]]
EnMarcha(p) == {i \in Items : p.tarea[i] = "running"}

\* an executor that starts a thread for every submitted task
SinTope(n) == TRUE

\* ThreadPoolExecutor(max_workers=self.config.MAX_WORKERS): a thread is
\* started for a submitted task only while fewer than max_workers exist
HayCupo(n) == n < MAX_WORKERS

\* ------------------------------------------------- one list operation
\* The remote listing of a folder holds total entries, 1..total in the
\* order of orderBy="name"; files().list answers with at most pageSize of
\* them and a nextPageToken while entries remain.
Entradas(desde, hasta) == [k \in 1..(hasta - desde + 1) |-> desde + k - 1]
PaginaDe(total, token) ==
    Entradas(token + 1, IF token + pageSize < total THEN token + pageSize ELSE total)
nextPageToken(total, token) ==
    IF token + pageSize < total THEN token + pageSize ELSE 0

\* the four list operations of the two scripts
Listados == {<<"pdf", "listar_carpetas">>, <<"pdf", "listar_pdfs">>,
             <<"ocr", "listar_carpetas">>, <<"ocr", "listar_imagenes">>}

\* pc: "idle" | "pagina" (in the while loop) | "returned" | "raised"
\* page_token: entries already passed, 0 for None
ListadoInit == [pc |-> "idle", script |-> "none", op |-> "none", total |-> 0,
                page_token |-> 0, all |-> <<>>]

\* `except HttpError` of the OCR reader's loops; the PDF manager's loops
\* have no handler
CapturaHttpError(script) == script = "ocr"

\* ------------------------------------------------------ dividir_json
\* the tasks of the input file: two kinds of record, so that lists with
\* equal neighbours are among the inputs
Tareas == {1, 2}
ListasDeTareas == UNION {[1..n -> Tareas] : n \in 0..MaxTasks}

\* a count of files that forgets the incomplete last batch
num_archivos_sin_resto(total_tasks, tasks_por_archivo) ==
    total_tasks \div tasks_por_archivo

\* line 29
num_archivos(total_tasks, tasks_por_archivo) ==
    (total_tasks + tasks_por_archivo - 1) \div tasks_por_archivo

\* lines 32-35: tasks[start_idx:end_idx] of the i-th turn, i counted from 0
Batch(tasks, tasks_por_archivo, i) ==
    LET start_idx == i * tasks_por_archivo
        lim == (i + 1) * tasks_por_archivo
        end_idx == IF lim < Len(tasks) THEN lim ELSE Len(tasks)
    IN SubSeq(tasks, start_idx + 1, end_idx)

\* the batch files of the output folder read back in file-number order
RECURSIVE Concatenar(_)
Concatenar(lotes) ==
    IF lotes = <<>> THEN <<>> ELSE Head(lotes) \o Concatenar(Tail(lotes))

\* pc: "idle" | "lotes" (in the for loop) | "done"
\* escritos[k]: the content of recibos_batch_k_of_n.json
DivisionInit == [pc |-> "idle", tasks |-> <<>>, tasks_por_archivo |-> 1,
                 n |-> 0, i |-> 0, escritos |-> <<>>]

\* ------------------------------------- two PDFs of one source folder
\* characters of a file name: two that line 408 keeps, one that it drops
Caracteres == {"a", "b", "#"}
Conservado(c) == c \in {"a", "b"}
Stems == UNION {[1..n -> Caracteres] : n \in 1..MaxStem}

\* line 408: keep alphanumerics, ' ', '-' and '_', then the first characters
pdf_base_name(stem) ==
    LET limpio == SelectSeq(stem, Conservado)
    IN IF Len(limpio) <= MaxBase THEN limpio ELSE SubSeq(limpio, 1, MaxBase)

Gemelos == {1, 2}
\* pc: "idle" | "queued" | "leer" | "crear" | "subir" | "done"
GemeloInit == [pc |-> "idle", resultado |-> "none", convertido |-> FALSE, page |-> 1]
\* carpetas: names of the folders under the destination month folder
GemelosInit == [nombre |-> [g \in Gemelos |-> <<"a">>], carpetas |-> {},
                w |-> [g \in Gemelos |-> GemeloInit], marcados |-> {}]

\* ------------------------------------- generar_dataset under MAX_IMAGES
\* the images of the run in the order of the three nested loops: numbered
\* folders 1 and 2 of the first month and folder 3 of the second, two
\* images in each
Imgs == 1..6
CarpetaDe(k) == (k + 1) \div 2
UltimaDeCarpeta(k) == k = 6 \/ CarpetaDe(k + 1) # CarpetaDe(k)

\* a limit test that lets one image too many through
LimiteSuperado(max_images, total) == max_images # 0 /\ total > max_images

\* lines 460, 495, 498: `self.config.MAX_IMAGES and total_imagenes >=
\* self.config.MAX_IMAGES`; None and 0 are falsy, written 0 here
LimiteAlcanzado(max_images, total) == max_images # 0 /\ total >= max_images

\* pc: "idle" | "imagen" (line 454, at image k) | "final" (line 501) | "done"
\* estado[k]: "none" | "skipped" | "nodownload" | "task"
\* cargadas: the registry as loaded at line 363; registro: the registry file
LimiteInit == [pc |-> "idle", MAX_IMAGES |-> 0, k |-> 1,
               processed_images |-> {}, nuevas_procesadas |-> {},
               label_studio_tasks |-> <<>>, total_imagenes |-> 0,
               imagenes_saltadas |-> 0,
               estado |-> [i \in Imgs |-> "none"], cargadas |-> {},
               registro |-> {}]

\* the end of the turn for image k: the next image of the folder, or, after
\* the folder's last image, the tests of lines 495 and 498 and the next
\* folder
Siguiente(l) ==
    IF UltimaDeCarpeta(l.k)
    THEN IF l.k = 6 \/ LimiteAlcanzado(l.MAX_IMAGES, l.total_imagenes)
         THEN [l EXCEPT !.pc = "final"]
         ELSE [l EXCEPT !.k = @ + 1]
    ELSE [l EXCEPT !.k = @ + 1]

\* ------------------------------------------------------ specification
InitWith(cf, rf) ==
    /\ \/ pipeline = "pdf" /\ batch_size = 1
       \/ pipeline = "ocr" /\ batch_size \in 1..MaxBatch
    /\ run = 1 /\ exit = "none" /\ flushed = "none"
    /\ dirty = FALSE /\ flushedAtKill = {} /\ prevNormal = FALSE
    /\ cacheFile = cf /\ processed = {} /\ loaded = {}
    /\ cpc = "init" /\ carpeta = 1
    /\ worker = [i \in Pdfs |-> WorkerInit]
    /\ collected = {}
    /\ dstFolder = [i \in Pdfs |-> FALSE]
    /\ dstPages = [i \in Pdfs |-> {}]
    /\ failedBefore = {} /\ erroredBefore = {}
    /\ regFile = rf /\ resFile = AbsentRes
    /\ processed_images = {} /\ nuevas_procesadas = {}
    /\ label_studio_tasks = <<>> /\ total_imagenes = 0
    /\ opc = "init" /\ idx = 1
    /\ imagen = [i \in Images |-> ImagenInit]
    /\ faults = 0
    /\ aviso = "none"
    /\ carpetasRemotas = {}
    /\ llamada = [c \in Callers |-> LlamadaInit]
    /\ archivos = [p \in Pages |-> 0]
    /\ subida = SubidaInit
    /\ lock = {}
    /\ marcador = [i \in Pdfs |-> "idle"]
    /\ volcador = VolcadorInit
    /\ antes = {} /\ instantes = {}
    /\ reintento = ReintentoInit
    /\ pool = PoolInit
    /\ listado = ListadoInit
    /\ division = DivisionInit
    /\ gemelos = GemelosInit
    /\ limite = LimiteInit

\* a first start: no checkpoint, registry or result file yet
Init == InitWith(Absent, Absent)

NextPdf ==
    \/ PdfStart
    \/ PdfCarpeta
    \/ \E i \in Pdfs : WorkerCheck(i)
    \/ \E i \in Pdfs : WorkerRead(i)
    \/ \E i \in Pdfs : WorkerMkdir(i)
    \/ \E i \in Pdfs : WorkerUpload(i)
    \/ \E i \in Pdfs : PdfCollect(i)
    \/ guardar_cache
    \/ PdfKill
    \/ PdfInterrupt
    \/ PdfRestart

NextOcr ==
    \/ OcrStart
    \/ OcrImagen
    \/ OcrSaveReg
    \/ OcrSaveRes
    \/ OcrFinalReg
    \/ guardar_dataset
    \/ OcrFin
    \/ OcrKill
    \/ OcrInterrupt
    \/ OcrRestart

Next == NextPdf \/ NextOcr

InitPdf == Init /\ pipeline = "pdf"
InitOcr == Init /\ pipeline = "ocr"

\* either script
Spec == Init /\ [][Next]_vars
\* the PDF pipeline alone
SpecPdf == InitPdf /\ [][NextPdf]_vars
\* the OCR generator alone
SpecOcr == InitOcr /\ [][NextOcr]_vars

\* `if __name__ == "__main__": main()`: both mains return from their except
\* blocks and neither calls sys.exit, so the interpreter ends with status 0
\* however main ended; a killed process reports 128 + its signal (SIGKILL)
ExitStatus(e) == IF e = "killed" THEN 128 + 9 ELSE 0

\* ================================================== single operations
\* ProcessedCache.__init__ / _cargar_cache, lines 91-109
cargar_cache ==
    /\ pipeline = "pdf" /\ aviso = "none"
    /\ processed' = CargarCache(cacheFile)
    /\ loaded' = CargarCache(cacheFile)
    /\ aviso' = IF CargaFalla(cacheFile) THEN "advertencia" ELSE "silencio"
    /\ UNCHANGED <<cacheFile, cpc, carpeta, worker, collected, dstFolder,
                   dstPages, failedBefore, erroredBefore>>
    /\ UNCHANGED <<runVars, ocrVars, carpetaVars, subidaVars, lockVars, reintentoVars, poolVars, listadoVars, divisionVars, gemelosVars, limiteVars>>

\* LabelStudioDatasetGenerator._cargar_registro_procesadas, lines 365-378
cargar_registro_procesadas ==
    /\ pipeline = "ocr" /\ aviso = "none"
    /\ processed_images' = CargarRegistro(regFile)
    /\ aviso' = IF INCREMENTAL_MODE /\ CargaFalla(regFile)
              THEN "advertencia" ELSE "silencio"
    /\ UNCHANGED <<batch_size, regFile, resFile, nuevas_procesadas,
                   label_studio_tasks, total_imagenes, opc, idx, imagen, faults>>
    /\ UNCHANGED <<runVars, pdfVars, carpetaVars, subidaVars, lockVars, reintentoVars, poolVars, listadoVars, divisionVars, gemelosVars, limiteVars>>

\* ------------------------------------------------------ crear_carpeta
\* lines 283-285 and 235-260: verificar_carpeta_existe answers from the
\* caller's folder_cache, else from files().list with pageSize=1
verificar_carpeta_existe(c) ==
    /\ llamada[c].pc = "idle" /\ llamada[c].calls < MaxCalls
    /\ \/ /\ llamada[c].cache # NoId
          /\ llamada' = [llamada EXCEPT ![c].ret = llamada[c].cache,
                                        ![c].calls = @ + 1]
       \/ /\ llamada[c].cache = NoId
          /\ \E f \in carpetasRemotas :
               llamada' = [llamada EXCEPT ![c].cache = f, ![c].ret = f,
                                          ![c].calls = @ + 1]
       \/ /\ llamada[c].cache = NoId /\ carpetasRemotas = {}
          /\ llamada' = [llamada EXCEPT ![c].pc = "crear", ![c].ret = NoId]
       \/ \* files().list raises: the exception leaves crear_carpeta
          /\ llamada[c].cache = NoId
          /\ llamada' = [llamada EXCEPT ![c].ret = NoId, ![c].calls = @ + 1]
    /\ UNCHANGED carpetasRemotas
    /\ UNCHANGED <<runVars, pdfVars, ocrVars, cargaVars, subidaVars, lockVars, reintentoVars, poolVars, listadoVars, divisionVars, gemelosVars, limiteVars>>

\* lines 287-304: files().create, folder_cache entry, return
crear_carpeta(c) ==
    /\ llamada[c].pc = "crear"
    /\ LET id == Cardinality(carpetasRemotas) + 1
       IN \/ /\ carpetasRemotas' = carpetasRemotas \cup {id}
             /\ llamada' = [llamada EXCEPT ![c] =
                    [pc |-> "idle", cache |-> id, ret |-> id, calls |-> @.calls + 1]]
          \/ \* files().create raises, carried out or not
             /\ carpetasRemotas' \in {carpetasRemotas, carpetasRemotas \cup {id}}
             /\ llamada' = [llamada EXCEPT ![c].pc = "idle", ![c].calls = @ + 1]
    /\ UNCHANGED <<runVars, pdfVars, ocrVars, cargaVars, subidaVars, lockVars, reintentoVars, poolVars, listadoVars, divisionVars, gemelosVars, limiteVars>>

NextCarpetas ==
    \/ \E c \in Callers : verificar_carpeta_existe(c)
    \/ \E c \in Callers : crear_carpeta(c)

\* concurrent crear_carpeta(nombre, parent_id) calls of the workers
SpecCarpetas == InitPdf /\ [][NextCarpetas]_vars

\* ------------------------------------------------- the upload loop
\* lines 452-456 once the loop of line 440 has run out of pages
DespuesDe(s) ==
    IF s.page < NumPages
    THEN [s EXCEPT !.page = s.page + 1, !.attempt = 0]
    ELSE [s EXCEPT !.pc = IF MarkAfterUploads(s.exitos, NumPages)
                          THEN "ok" ELSE "error"]

\* lines 310-335: one pass of `for attempt in range(max_retries)` for the
\* page at hand; every pass sends a files().create of its own
intento_de_subida ==
    /\ subida.pc = "subir"
    /\ \/ \* create returns the new file's id
          /\ archivos' = [archivos EXCEPT ![subida.page] = @ + 1]
          /\ subida' = DespuesDe([subida EXCEPT !.exitos = @ + 1])
       \/ \* create raises (bare except); the request was carried out by
          \* the remote store or not
          /\ archivos' \in {archivos, [archivos EXCEPT ![subida.page] = @ + 1]}
          /\ subida' = IF subida.attempt < MAX_RETRIES - 1
                       THEN [subida EXCEPT !.attempt = @ + 1]
                       ELSE DespuesDe(subida)
    /\ UNCHANGED <<runVars, pdfVars, ocrVars, cargaVars, carpetaVars, lockVars, reintentoVars, poolVars, listadoVars, divisionVars, gemelosVars, limiteVars>>

\* lines 410-416: a later run's worker meets the PDF that ended with an
\* error; its destination folder exists, so nothing is uploaded again
procesar_de_nuevo ==
    /\ subida.pc = "error"
    /\ subida' = [subida EXCEPT !.pc = IF SKIP_EXISTING THEN "skipped" ELSE "subir",
                                !.page = 1, !.attempt = 0, !.exitos = 0]
    /\ UNCHANGED archivos
    /\ UNCHANGED <<runVars, pdfVars, ocrVars, cargaVars, carpetaVars, lockVars, reintentoVars, poolVars, listadoVars, divisionVars, gemelosVars, limiteVars>>

NextSubida == intento_de_subida \/ procesar_de_nuevo

\* the page uploads of one PDF, attempt by attempt
SpecSubida == InitPdf /\ [][NextSubida]_vars

\* ------------------------------------------------- ProcessedCache.lock
\* The memory set and the file are processed and cacheFile; the other
\* variables of the pipeline stay as they are.
LockFrame ==
    /\ UNCHANGED <<pipeline, run, exit, dirty, flushedAtKill, prevNormal>>
    /\ UNCHANGED <<loaded, cpc, carpeta, worker, collected, dstFolder, dstPages,
                   failedBefore, erroredBefore>>
    /\ UNCHANGED <<ocrVars, cargaVars, carpetaVars, subidaVars, reintentoVars, poolVars, listadoVars, divisionVars, gemelosVars, limiteVars>>

EnCurso == volcador.pc \in {"espera", "dentro", "escribir"}

\* line 113: a worker enters marcar_procesado's `with self.lock`
marcar_entrar(i) ==
    /\ marcador[i] = "idle" /\ LockFree(lock)
    /\ lock' = lock \cup {i}
    /\ marcador' = [marcador EXCEPT ![i] = "dentro"]
    /\ UNCHANGED <<processed, cacheFile, flushed, volcador, antes, instantes>>
    /\ LockFrame

\* line 114 and the end of the block: add the id, release, return
marcar_salir(i) ==
    /\ marcador[i] = "dentro"
    /\ processed' = marcar_procesado(processed, i)
    /\ lock' = lock \ {i}
    /\ marcador' = [marcador EXCEPT ![i] = "hecho"]
    /\ instantes' = IF EnCurso THEN instantes \cup {processed'} ELSE instantes
    /\ UNCHANGED <<cacheFile, flushed, volcador, antes>>
    /\ LockFrame

\* line 121: guardar_cache is called
guardar_llamar ==
    /\ volcador.pc = "idle"
    /\ volcador' = [volcador EXCEPT !.pc = "espera"]
    /\ antes' = {i \in Pdfs : marcador[i] = "hecho"}
    /\ instantes' = {processed}
    /\ UNCHANGED <<processed, cacheFile, flushed, lock, marcador>>
    /\ LockFrame

\* line 123: it enters its `with self.lock`
guardar_entrar ==
    /\ volcador.pc = "espera" /\ LockFree(lock)
    /\ lock' = lock \cup {Coordinador}
    /\ volcador' = [volcador EXCEPT !.pc = "dentro"]
    /\ UNCHANGED <<processed, cacheFile, flushed, marcador, antes, instantes>>
    /\ LockFrame

\* line 127: list(self.processed) walks the set, one element at a time
guardar_copiar ==
    /\ volcador.pc = "dentro"
    /\ volcador' =
         IF volcador.cursor \in Pdfs
         THEN [volcador EXCEPT
                 !.cursor = @ + 1,
                 !.copia = IF volcador.cursor \in processed
                           THEN @ \cup {volcador.cursor} ELSE @]
         ELSE [volcador EXCEPT !.pc = "escribir"]
    /\ UNCHANGED <<processed, cacheFile, flushed, lock, marcador, antes, instantes>>
    /\ LockFrame

\* lines 125-133: the write, then the end of the `with self.lock` block
guardar_escribir ==
    /\ volcador.pc = "escribir"
    /\ \E w \in WriteInPlace(cacheFile, IdFile(volcador.copia)) :
         /\ cacheFile' = w.file
         /\ flushed' = IF w.ok THEN "ok" ELSE "failed"
    /\ lock' = lock \ {Coordinador}
    /\ volcador' = [volcador EXCEPT !.pc = "hecho"]
    /\ UNCHANGED <<processed, marcador, antes, instantes>>
    /\ LockFrame

NextLock ==
    \/ \E i \in Pdfs : marcar_entrar(i)
    \/ \E i \in Pdfs : marcar_salir(i)
    \/ guardar_llamar
    \/ guardar_entrar
    \/ guardar_copiar
    \/ guardar_escribir

\* guardar_cache next to the workers' marcar_procesado calls
SpecLock == InitPdf /\ [][NextLock]_vars

\* ------------------------------------------ one retrying remote call
\* leer_archivo_en_memoria / subir_archivo_desde_memoria is called with a
\* max_retries of at least minimo
Llamar(minimo) ==
    /\ reintento.pc = "idle"
    /\ \E op \in {"read", "upload"}, m \in minimo..MAX_RETRIES :
         \/ \E f \in Fails :
              reintento' = [ReintentoInit EXCEPT !.pc = "intento", !.op = op,
                              !.max_retries = m, !.fallos = f]
         \/ \E t \in {"not_found", "invalid"} :
              reintento' = [ReintentoInit EXCEPT !.pc = "intento", !.op = op,
                              !.max_retries = m, !.tipo = t,
                              !.fallos = MAX_RETRIES + 1]
    /\ UNCHANGED <<runVars, pdfVars, ocrVars, cargaVars, carpetaVars, subidaVars,
                   lockVars, poolVars, listadoVars, divisionVars, gemelosVars, limiteVars>>

\* lines 264-279 / 310-335: one pass of `for attempt in range(max_retries)`.
\* The bare except takes every exception the same way: sleep 2 ** attempt
\* and go round again, or return None after the last pass.
intento ==
    /\ reintento.pc = "intento"
    /\ LET a == reintento.attempt
       IN reintento' =
            IF a >= reintento.max_retries
            THEN \* range(max_retries) is used up: the function falls off its
                 \* end and returns None
                 [reintento EXCEPT !.pc = "done"]
            ELSE IF a >= reintento.fallos
            THEN [reintento EXCEPT !.pc = "done", !.attempt = a + 1, !.ok = TRUE]
            ELSE IF a < reintento.max_retries - 1
                 THEN [reintento EXCEPT !.attempt = a + 1,
                                        !.esperas = Append(@, 2 ^ a)]
                 ELSE [reintento EXCEPT !.pc = "done", !.attempt = a + 1]
    /\ UNCHANGED <<runVars, pdfVars, ocrVars, cargaVars, carpetaVars, subidaVars,
                   lockVars, poolVars, listadoVars, divisionVars, gemelosVars, limiteVars>>

\* the worker passes config.MAX_RETRIES (lines 419, 445), 3 as shipped;
\* other callers may pass less, at least one attempt
llamar == Llamar(1)

\* config.MAX_RETRIES is any value the configuration permits, from 0 on
llamar_configurado == Llamar(0)

NextReintento == llamar \/ intento

\* a read or an upload with its retry loop, pass by pass
SpecReintento == InitPdf /\ [][NextReintento]_vars

NextReintentoConfigurado == llamar_configurado \/ intento

\* the same call under every permitted MAX_RETRIES
SpecReintentoConfigurado == InitPdf /\ [][NextReintentoConfigurado]_vars

\* ---------------------------------------------- loading a checkpoint
\* the checkpoint files found at a start are whatever an earlier run, an
\* editor or a copy left there
InitCarga ==
    \E cf \in Shapes(Pdfs), rf \in Shapes(Images) : InitWith(cf, rf)

NextCarga == cargar_cache \/ cargar_registro_procesadas

\* the load of the checkpoint on its own
SpecCarga == InitCarga /\ [][NextCarga]_vars

\* ------------------------------------------- the executor of a folder
\* lines 551-557: executor.submit for the next PDF of the list. The task is
\* queued; an idle thread may be left to take it, else a thread is started
\* if the pool is not complete
submit(i) ==
    /\ pool.tarea[i] = "none"
    /\ \A j \in Items : j < i => pool.tarea[j] # "none"
    /\ \E h \in {pool.hilos, pool.hilos + 1} :
         /\ h = pool.hilos + 1 => HayCupo(pool.hilos)
         /\ h = pool.hilos =>
               \/ ~HayCupo(pool.hilos)
               \/ Cardinality(EnMarcha(pool)) < pool.hilos
         /\ pool' = [pool EXCEPT !.hilos = h, !.tarea[i] = "queued"]
    /\ UNCHANGED <<runVars, pdfVars, ocrVars, cargaVars, carpetaVars, subidaVars,
                   lockVars, reintentoVars, listadoVars, divisionVars, gemelosVars, limiteVars>>

\* a thread of the pool that runs no task takes a queued one:
\* procesar_pdf_worker begins (line 376)
iniciar(i) ==
    /\ pool.tarea[i] = "queued"
    /\ Cardinality(EnMarcha(pool)) < pool.hilos
    /\ pool' = [pool EXCEPT !.tarea[i] = "running"]
    /\ UNCHANGED <<runVars, pdfVars, ocrVars, cargaVars, carpetaVars, subidaVars,
                   lockVars, reintentoVars, listadoVars, divisionVars, gemelosVars, limiteVars>>

\* procesar_pdf_worker returns or raises (lines 404-465); its thread is free
terminar(i) ==
    /\ pool.tarea[i] = "running"
    /\ pool' = [pool EXCEPT !.tarea[i] = "done"]
    /\ UNCHANGED <<runVars, pdfVars, ocrVars, cargaVars, carpetaVars, subidaVars,
                   lockVars, reintentoVars, listadoVars, divisionVars, gemelosVars, limiteVars>>

NextPool ==
    \/ \E i \in Items : submit(i)
    \/ \E i \in Items : iniciar(i)
    \/ \E i \in Items : terminar(i)

\* the tasks of one folder in the executor of line 549
SpecPool == InitPdf /\ [][NextPool]_vars

\* ------------------------------------------------- one list operation
\* a list operation is called for a folder with total entries
listar_llamar ==
    /\ listado.pc = "idle"
    /\ \E l \in Listados, t \in 0..MaxEntries :
         listado' = [ListadoInit EXCEPT !.pc = "pagina", !.script = l[1],
                                        !.op = l[2], !.total = t]
    /\ UNCHANGED <<runVars, pdfVars, ocrVars, cargaVars, carpetaVars, subidaVars,
                   lockVars, reintentoVars, poolVars, divisionVars, gemelosVars, limiteVars>>

\* one turn of the `while True` loop: files().list(...).execute()
listar_pagina ==
    /\ listado.pc = "pagina"
    /\ \/ \* the page arrives: extend, take the token, break when there is none
          LET tok == nextPageToken(listado.total, listado.page_token)
          IN listado' = [listado EXCEPT
                           !.all = @ \o PaginaDe(listado.total, listado.page_token),
                           !.page_token = tok,
                           !.pc = IF tok = 0 THEN "returned" ELSE "pagina"]
       \/ \* execute() raises HttpError (quota, 5xx, folder removed)
          listado' = [listado EXCEPT
                        !.pc = IF CapturaHttpError(listado.script)
                               THEN "returned" ELSE "raised"]
       \/ \* execute() raises something else (socket timeout, transport error)
          listado' = [listado EXCEPT !.pc = "raised"]
    /\ UNCHANGED <<runVars, pdfVars, ocrVars, cargaVars, carpetaVars, subidaVars,
                   lockVars, reintentoVars, poolVars, divisionVars, gemelosVars, limiteVars>>

NextListado == listar_llamar \/ listar_pagina

\* one list operation on its own
SpecListado == InitPdf /\ [][NextListado]_vars

\* ------------------------------------------- one run left undisturbed
\* a start with any well-formed checkpoint
InitUnaVez ==
    /\ pipeline = "pdf"
    /\ \E s \in SUBSET Pdfs : InitWith(IdFile(s), Absent)

\* the steps of the run itself: no kill, no Ctrl-C, no second start
NextPdfUnaVez ==
    \/ PdfStart
    \/ PdfCarpeta
    \/ \E i \in Pdfs : WorkerCheck(i)
    \/ \E i \in Pdfs : WorkerRead(i)
    \/ \E i \in Pdfs : WorkerMkdir(i)
    \/ \E i \in Pdfs : WorkerUpload(i)
    \/ \E i \in Pdfs : PdfCollect(i)
    \/ guardar_cache

\* every remote call returns or raises, the pool threads and the
\* coordinator are scheduled: a step that can be taken is taken
SpecPdfUnaVez == InitUnaVez /\ [][NextPdfUnaVez]_vars /\ WF_vars(NextPdfUnaVez)

\* ------------------------------------------------------ dividir_json
\* lines 18-29: the input file is read and the number of files computed
dividir_json_leer ==
    /\ division.pc = "idle"
    /\ \E t \in ListasDeTareas, p \in 1..MaxPorArchivo :
         division' = [DivisionInit EXCEPT
                        !.pc = "lotes", !.tasks = t, !.tasks_por_archivo = p,
                        !.n = num_archivos(Len(t), p)]
    /\ UNCHANGED <<runVars, pdfVars, ocrVars, cargaVars, carpetaVars, subidaVars,
                   lockVars, reintentoVars, poolVars, listadoVars, gemelosVars, limiteVars>>

\* lines 31-43: one turn of the loop writes one batch file; the loop ends
\* when range(num_archivos) is used up
dividir_json_lote ==
    /\ division.pc = "lotes"
    /\ division' =
         IF division.i < division.n
         THEN [division EXCEPT
                 !.escritos = Append(@, Batch(division.tasks,
                                              division.tasks_por_archivo, division.i)),
                 !.i = @ + 1]
         ELSE [division EXCEPT !.pc = "done"]
    /\ UNCHANGED <<runVars, pdfVars, ocrVars, cargaVars, carpetaVars, subidaVars,
                   lockVars, reintentoVars, poolVars, listadoVars, gemelosVars, limiteVars>>

NextDivision == dividir_json_leer \/ dividir_json_lote

\* dividir_json on its own
SpecDivision == InitPdf /\ [][NextDivision]_vars

\* ------------------------------------- two PDFs of one source folder
\* lines 540-557: the folder lists two files of different names, the
\* destination is still empty, one task is submitted for each
gemelos_submit ==
    /\ \A g \in Gemelos : gemelos.w[g].pc = "idle"
    /\ \E n1 \in Stems, n2 \in Stems :
         /\ n1 # n2
         /\ gemelos' = [GemelosInit EXCEPT
                          !.nombre = [g \in Gemelos |-> IF g = 1 THEN n1 ELSE n2],
                          !.w = [g \in Gemelos |-> [GemeloInit EXCEPT !.pc = "queued"]]]
    /\ UNCHANGED <<runVars, pdfVars, ocrVars, cargaVars, carpetaVars, subidaVars,
                   lockVars, reintentoVars, poolVars, listadoVars, divisionVars, limiteVars>>

\* lines 401-416: not in the cache; verificar_carpeta_existe(pdf_base_name)
gemelos_verificar(g) ==
    /\ gemelos.w[g].pc = "queued"
    /\ IF SKIP_EXISTING /\ pdf_base_name(gemelos.nombre[g]) \in gemelos.carpetas
       THEN gemelos' = [gemelos EXCEPT
                          !.marcados = marcar_procesado(@, g),
                          !.w[g].pc = "done", !.w[g].resultado = "skipped"]
       ELSE gemelos' = [gemelos EXCEPT !.w[g].pc = "leer"]
    /\ UNCHANGED <<runVars, pdfVars, ocrVars, cargaVars, carpetaVars, subidaVars,
                   lockVars, reintentoVars, poolVars, listadoVars, divisionVars, limiteVars>>

\* lines 419-430: read and convert
gemelos_leer(g) ==
    /\ gemelos.w[g].pc = "leer"
    /\ \/ gemelos' = [gemelos EXCEPT !.w[g].pc = "crear", !.w[g].convertido = TRUE]
       \/ gemelos' = [gemelos EXCEPT !.w[g].pc = "done", !.w[g].resultado = "error"]
    /\ UNCHANGED <<runVars, pdfVars, ocrVars, cargaVars, carpetaVars, subidaVars,
                   lockVars, reintentoVars, poolVars, listadoVars, divisionVars, limiteVars>>

\* lines 433-436: crear_carpeta(pdf_base_name) finds or creates the folder
gemelos_crear(g) ==
    /\ gemelos.w[g].pc = "crear"
    /\ \/ gemelos' = [gemelos EXCEPT
                        !.carpetas = @ \cup {pdf_base_name(gemelos.nombre[g])},
                        !.w[g].pc = "subir"]
       \/ gemelos' = [gemelos EXCEPT !.w[g].pc = "done", !.w[g].resultado = "error"]
    /\ UNCHANGED <<runVars, pdfVars, ocrVars, cargaVars, carpetaVars, subidaVars,
                   lockVars, reintentoVars, poolVars, listadoVars, divisionVars, limiteVars>>

\* lines 439-456: one page is uploaded; after the last one the PDF is marked
gemelos_subir(g) ==
    /\ gemelos.w[g].pc = "subir"
    /\ \/ IF gemelos.w[g].page < NumPages
          THEN gemelos' = [gemelos EXCEPT !.w[g].page = @ + 1]
          ELSE gemelos' = [gemelos EXCEPT
                             !.marcados = marcar_procesado(@, g),
                             !.w[g].pc = "done", !.w[g].resultado = "ok"]
       \/ \* an upload failed for good: "Solo k/n imágenes subidas"
          gemelos' = [gemelos EXCEPT !.w[g].pc = "done", !.w[g].resultado = "error"]
    /\ UNCHANGED <<runVars, pdfVars, ocrVars, cargaVars, carpetaVars, subidaVars,
                   lockVars, reintentoVars, poolVars, listadoVars, divisionVars, limiteVars>>

NextGemelos ==
    \/ gemelos_submit
    \/ \E g \in Gemelos : gemelos_verificar(g)
    \/ \E g \in Gemelos : gemelos_leer(g)
    \/ \E g \in Gemelos : gemelos_crear(g)
    \/ \E g \in Gemelos : gemelos_subir(g)

\* two workers of one folder whose PDFs may share a destination name
SpecGemelos == InitPdf /\ [][NextGemelos]_vars

\* ------------------------------------- generar_dataset under MAX_IMAGES
\* generar_dataset is called with a registry of an earlier run and a limit
limite_llamar ==
    /\ limite.pc = "idle"
    /\ \E m \in 0..MaxLimite, reg \in SUBSET Imgs :
         limite' = [LimiteInit EXCEPT !.pc = "imagen", !.MAX_IMAGES = m,
                                      !.processed_images = reg,
                                      !.cargadas = reg, !.registro = reg]
    /\ UNCHANGED <<runVars, pdfVars, ocrVars, cargaVars, carpetaVars, subidaVars,
                   lockVars, reintentoVars, poolVars, listadoVars, divisionVars,
                   gemelosVars>>

\* lines 454-493: one turn of the innermost loop
limite_imagen ==
    /\ limite.pc = "imagen"
    /\ LET k == limite.k
       IN IF INCREMENTAL_MODE /\ k \in limite.processed_images
          THEN \* lines 456-458
               limite' = Siguiente([limite EXCEPT !.imagenes_saltadas = @ + 1,
                                                  !.estado[k] = "skipped"])
          ELSE IF LimiteAlcanzado(limite.MAX_IMAGES, limite.total_imagenes)
               THEN \* lines 460-462: break; lines 495 and 498 break as well
                    limite' = [limite EXCEPT !.pc = "final"]
               ELSE \/ \* lines 469-471: the download failed
                       limite' = Siguiente([limite EXCEPT !.estado[k] = "nodownload"])
                    \/ \* lines 474-482
                       limite' = Siguiente([limite EXCEPT
                                    !.label_studio_tasks = Append(@, k),
                                    !.nuevas_procesadas = @ \cup {k},
                                    !.total_imagenes = @ + 1,
                                    !.estado[k] = "task"])
    /\ UNCHANGED <<runVars, pdfVars, ocrVars, cargaVars, carpetaVars, subidaVars,
                   lockVars, reintentoVars, poolVars, listadoVars, divisionVars,
                   gemelosVars>>

\* lines 510-516: the final save of the registry
limite_final ==
    /\ limite.pc = "final"
    /\ limite' = [limite EXCEPT
                    !.pc = "done",
                    !.processed_images = @ \cup limite.nuevas_procesadas,
                    !.registro = limite.processed_images \cup limite.nuevas_procesadas]
    /\ UNCHANGED <<runVars, pdfVars, ocrVars, cargaVars, carpetaVars, subidaVars,
                   lockVars, reintentoVars, poolVars, listadoVars, divisionVars,
                   gemelosVars>>

NextLimite == limite_llamar \/ limite_imagen \/ limite_final

\* one run of generar_dataset with a limit
SpecLimite == InitOcr /\ [][NextLimite]_vars

\* ============================================================ claims
\* C1: in the PDF pipeline, under every interleaving of the workers, an item
\* with at least one page upload that failed after its retries (and whose id
\* was not in the checkpoint at run start) is never in the checkpoint set
\* and resolves to Failed, not Succeeded.
C1_NoPartialMarking ==
    pipeline = "pdf" =>
      \A i \in Pdfs :
        (worker[i].upFailed /\ i \notin loaded) =>
          /\ i \notin processed
          /\ worker[i].resultado # "ok"
          /\ (worker[i].pc = "done" => Outcome(i) = "Failed")

\* a run has ended normally with a partially uploaded item next to an item
\* that another worker completed and marked
C1_Witness ==
    /\ pipeline = "pdf" /\ exit = "normal"
    /\ \E i, j \in Pdfs :
         /\ worker[i].upFailed /\ worker[i].pc = "done"
         /\ dstPages[i] # {} /\ dstPages[i] # Pages
         /\ j # i /\ worker[j].resultado = "ok" /\ j \in processed

\* C2: an item one of whose page uploads failed in the previous run (its
\* destination folder exists with fewer than all pages) is processed again
\* by the next run and is not reported Skipped.
C2_RetriedNextRun ==
    pipeline = "pdf" =>
      \A i \in failedBefore :
        (dstPages[i] # Pages /\ worker[i].pc = "done") =>
          worker[i].resultado # "skipped"

\* C3: an id is in ProcessedCache.processed only if it was loaded from the
\* checkpoint file at run start or every page image of the item is in the
\* remote store.
C3_MarkedOnlyWhenComplete ==
    pipeline = "pdf" =>
      \A i \in processed : i \in loaded \/ dstPages[i] = Pages

\* C8: a remote call that fails k < MAX_RETRIES times and then succeeds
\* returns success after exactly k + 1 attempts; with more than MAX_RETRIES
\* failures it returns failure, and an item whose call failed is Failed.
C8_RetryContract ==
    pipeline = "pdf" =>
      \A i \in Pdfs :
        LET c == worker[i].call
        IN c.op # "none" =>
             /\ (c.fails < MAX_RETRIES => c.ok /\ c.attempts = c.fails + 1)
             /\ (c.fails > MAX_RETRIES => ~c.ok)
             /\ ((~c.ok \/ worker[i].upFailed) /\ worker[i].pc = "done"
                   => Outcome(i) = "Failed")

\* one read succeeded on its last allowed attempt, and another item is Failed
\* after a call that met more than MAX_RETRIES failures
C8_Witness ==
    /\ pipeline = "pdf"
    /\ \E i, j \in Pdfs :
         /\ worker[i].call.op = "read" /\ worker[i].call.ok
         /\ worker[i].call.fails = MAX_RETRIES - 1
         /\ worker[i].call.attempts = MAX_RETRIES
         /\ worker[j].call.op # "none" /\ worker[j].call.fails > MAX_RETRIES
         /\ worker[j].pc = "done" /\ Outcome(j) = "Failed"

\* C4: in the incremental OCR generator every image id held by the durable
\* processed-ids registry has its result record in the durable result file,
\* in every state (so at every point where the process can be killed).
C4_RegistryAfterResults ==
    pipeline = "ocr" =>
      \A i \in CargarRegistro(regFile) : Count(i, CargarTareas(resFile)) >= 1

\* C5: the run that follows a normally ended run over the same corpus and
\* checkpoint file invokes no Transform and gives every item it resolves the
\* outcome Skipped.
C5_SecondRunAllSkipped ==
    (run >= 2 /\ prevNormal) =>
      /\ pipeline = "pdf" =>
           \A i \in Pdfs : /\ worker[i].transforms = 0
                           /\ (worker[i].pc = "done" => Outcome(i) = "Skipped")
      /\ pipeline = "ocr" =>
           \A i \in Images : /\ imagen[i].ocr = 0
                             /\ imagen[i].outcome \in {"none", "Skipped"}

\* C5, amended: an item whose id the run loaded from the checkpoint file gets
\* no Transform invocation in that run and is Skipped when the run resolves
\* it (in the PDF pipeline Failed if the worker's client construction raises
\* before the check); an item absent from the file may be transformed again.
C5_LoadedItemsSkipped ==
    /\ pipeline = "pdf" =>
         \A i \in loaded :
           /\ worker[i].transforms = 0
           /\ (worker[i].pc = "done" => worker[i].resultado \in {"skipped", "raised"})
    /\ pipeline = "ocr" =>
         \A i \in processed_images \ nuevas_procesadas :
           /\ imagen[i].ocr = 0
           /\ imagen[i].outcome \in {"none", "Skipped"}

\* the second run of the OCR generator ended normally: it skipped an image
\* of the registry and ran OCR on an image the registry did not hold
C5_Witness ==
    /\ pipeline = "ocr" /\ run = 2 /\ exit = "normal" /\ prevNormal
    /\ \E i, j \in Images :
         /\ i \in processed_images \ nuevas_procesadas
         /\ imagen[i].outcome = "Skipped" /\ imagen[i].ocr = 0
         /\ j \in nuevas_procesadas /\ imagen[j].ocr = 1

\* C6: after a kill that directly follows a returned flush, the next run of
\* the OCR generator skips every item marked before that flush, and when
\* that run has ended normally the result file holds at most one record for
\* each item it skipped.
C6_CrashSafety ==
    (pipeline = "ocr" /\ exit # "killed") =>
      \A i \in flushedAtKill :
        /\ imagen[i].ocr = 0
        /\ imagen[i].outcome \in {"none", "Skipped"}
        /\ (exit = "normal" /\ imagen[i].outcome = "Skipped"
              => Count(i, CargarTareas(resFile)) <= 1)

\* C7: the durable result file never holds more than one record per image.
C7_AtMostOneRecord ==
    pipeline = "ocr" =>
      \A i \in Images : Count(i, CargarTareas(resFile)) <= 1

\* C9: no step, be it a failing flush or a kill during a write, turns a
\* readable checkpoint, registry or result file into an unreadable one, and
\* a checkpoint flush that fails leaves the file's content as it was.
C9_AtomicReplace ==
    [][ /\ (cacheFile.kind = "ok" => cacheFile'.kind = "ok")
        /\ (regFile.kind = "ok" => regFile'.kind = "ok")
        /\ (resFile.kind = "ok" => resFile'.kind = "ok")
        /\ (cacheFile.kind = "ok" /\ cpc = "flush" /\ flushed' = "failed"
              => cacheFile' = cacheFile) ]_vars

\* C10: a run that ends normally or with an exception has flushed after the
\* last id it marked processed.
C10_FlushedAtExit == exit \in {"normal", "error"} => ~dirty

\* C11: a run ended by an operator interrupt has attempted a flush after the
\* last id it marked processed.
C11_FlushOnInterrupt == exit = "interrupted" => ~dirty

\* C12: no step that resolves an item (a worker's step, the handling of one
\* image) ends the run with an error: a failing item is recorded and the run
\* goes on to the other items.
C12_ItemFailureNeverAborts ==
    [][ exit' = "error" => (worker' = worker /\ imagen' = imagen) ]_vars

\* C13: an item whose read, conversion or destination-folder creation failed
\* terminally is Failed with that reason and is not in the checkpoint set;
\* the next run does not load it from the checkpoint and does not report it
\* Skipped.
C13_EarlyFailureRetried ==
    pipeline = "pdf" =>
      /\ \A i \in Pdfs :
           worker[i].error \in EarlyErrors =>
             Outcome(i) = "Failed" /\ i \notin processed
      /\ \A i \in erroredBefore :
           /\ i \notin loaded
           /\ worker[i].pc = "done" => worker[i].resultado # "skipped"

\* C14: the step that resolves an item whose id is in the checkpoint set
\* gives it the outcome Skipped, invokes no Transform, issues no remote read,
\* folder creation or upload, and leaves the checkpoint set unchanged.
C14_SkipIsPure ==
    [][ /\ \A i \in Pdfs :
             ( /\ pipeline = "pdf" /\ SKIP_EXISTING /\ esta_procesado(i)
               /\ worker[i].pc = "queued" /\ worker'[i].pc # "queued" )
             => /\ worker'[i].pc = "done" /\ worker'[i].resultado = "skipped"
                /\ worker'[i].transforms = 0 /\ worker'[i].call = NoCall
                /\ processed' = processed
                /\ dstFolder' = dstFolder /\ dstPages' = dstPages
        /\ \A i \in Images :
             ( /\ pipeline = "ocr" /\ EsSaltada(i)
               /\ imagen'[i] # imagen[i] /\ opc = "imagen" )
             => /\ imagen'[i].outcome = "Skipped" /\ imagen'[i].ocr = imagen[i].ocr
                /\ processed_images' = processed_images
                /\ nuevas_procesadas' = nuevas_procesadas
                /\ label_studio_tasks' = label_studio_tasks ]_vars

\* C15: once the checkpoint is loaded, a missing file has given the empty
\* set, a well-formed file exactly the ids it lists and no warning, and any
\* other file (unparseable, or parseable but of another shape) the empty set
\* and a warning.
C15_PermissiveLoad ==
    aviso # "none" =>
      LET file == IF pipeline = "pdf" THEN cacheFile ELSE regFile
          set == IF pipeline = "pdf" THEN processed ELSE processed_images
      IN CASE file.kind = "absent" -> set = {}
           [] file.kind = "ok" -> set = file.ids /\ aviso = "silencio"
           [] OTHER -> set = {} /\ aviso = "advertencia"

\* C16: whatever crear_carpeta calls were made with one name and parent, by
\* one worker or by several at the same time, at most one folder of that
\* name exists under the parent and every call that returned an id returned
\* the id of that folder.
C16_EnsureFolderIdempotent ==
    /\ Cardinality(carpetasRemotas) <= 1
    /\ \A c \in Callers :
         (llamada[c].pc = "idle" /\ llamada[c].ret # NoId) =>
           llamada[c].ret \in carpetasRemotas

\* C17: whatever attempts were made to upload the pages of an item, its
\* destination folder holds at most one file per page name.
C17_NoDuplicateArtifacts == \A p \in Pages : archivos[p] <= 1

\* C18: when a guardar_cache that ran next to marcar_procesado calls of
\* other threads has written the file, the file holds every id whose
\* marcar_procesado had returned when guardar_cache was called, and its set
\* of ids is a value the in-memory set had at one instant of the flush.
C18_FlushLosesNoUpdate ==
    (volcador.pc = "hecho" /\ flushed = "ok") =>
      /\ antes \subseteq cacheFile.ids
      /\ cacheFile.ids \in instantes

\* a flush has written the file with an id marked before it was called,
\* while another worker's marcar_procesado came too late for it
C18_Witness ==
    /\ volcador.pc = "hecho" /\ flushed = "ok"
    /\ \E i, j \in Pdfs :
         /\ i \in antes /\ i \in cacheFile.ids
         /\ j \notin cacheFile.ids /\ marcador[j] = "hecho"

\* C19: a run that ends normally has exit status 0, and a run that ends
\* with a fatal error (an exception that reaches main) has a non-zero exit
\* status.
C19_ExitStatus ==
    /\ exit = "normal" => ExitStatus(exit) = 0
    /\ exit = "error" => ExitStatus(exit) # 0

\* C20: in the statistics of a PDF run that ended normally every resolved
\* item is counted in exactly one category, and every item counted as failed
\* has an entry with its name and reason in the error list.
C20_ReportListsFailures ==
    (pipeline = "pdf" /\ exit = "normal") =>
      /\ pdfs_skip + pdfs_procesados + pdfs_con_error = Cardinality(collected)
      /\ pdfs_con_error = Cardinality(errores)
      /\ \A i \in collected :
           Outcome(i) = "Failed" => i \in errores /\ worker[i].error # ""

\* C21: when a run of the OCR generator has ended normally, the checkpoint
\* set is the set loaded at the start united with the ids of the images
\* that succeeded in this run; with img-1 loaded and img-2 new, img-1 is
\* Skipped, img-2 Succeeded and the set is {img-1, img-2}.
C21_FinalCheckpointSet ==
    (pipeline = "ocr" /\ exit = "normal") =>
      LET cargadas == processed_images \ nuevas_procesadas
          exitosas == {i \in Images : imagen[i].outcome = "Succeeded"}
      IN processed_images = cargadas \cup exitosas

\* C22: the step that lists the content of one source folder (the PDFs of a
\* month folder, the images of a numbered folder) never ends the run with an
\* error: when the listing fails, that folder is left out and the run goes
\* on to the next one.
C22_ListFailureSkipsSubtree ==
    [][ ( \/ pipeline = "pdf" /\ cpc = "carpeta"
          \/ pipeline = "ocr" /\ opc = "imagen" /\ imagen' = imagen )
        => exit' # "error" ]_vars

\* C23: a flush whose write fails hands its caller a result that differs
\* from the result of a flush that persisted the state, and it leaves a
\* readable checkpoint, registry or result file readable.
C23_FlushFailureReported ==
    [][ flushed' = "failed" =>
          /\ FlushResult(FALSE) # FlushResult(TRUE)
          /\ (cacheFile.kind = "ok" => cacheFile'.kind = "ok")
          /\ (regFile.kind = "ok" => regFile'.kind = "ok")
          /\ (resFile.kind = "ok" => resFile'.kind = "ok") ]_vars

\* C24: a read or upload that fails with a not-found or validation error is
\* attempted exactly once and returns failure; it is never tried again.
C24_TerminalErrorNotRetried ==
    reintento.tipo \in {"not_found", "invalid"} =>
      /\ reintento.attempt <= 1
      /\ (reintento.pc = "done" => ~reintento.ok /\ reintento.attempt = 1)

\* C25: the wait after failed attempt number a (counted from 0) is
\* RETRY_DELAY * 2^a, and no wait follows the last attempt of a call.
C25_BackoffDelays ==
    /\ \A k \in DOMAIN reintento.esperas :
         reintento.esperas[k] = RETRY_DELAY * 2 ^ (k - 1)
    /\ reintento.pc = "done" => Len(reintento.esperas) = reintento.attempt - 1

\* C26: each step that brings the number of completed items to a multiple
\* of the batch size is followed at once by a checkpoint flush (the PDF
\* script has no batch-size setting; its batch_size is 1, a flush after
\* every completed item).
C26_FlushEveryBatch ==
    [][ /\ ( /\ pipeline = "pdf" /\ collected' # collected
             /\ \E i \in collected' \ collected : worker[i].resultado \in {"ok", "skipped"}
             /\ Cardinality(collected') % batch_size = 0 )
           => cpc' = "flush"
        /\ ( /\ pipeline = "ocr" /\ total_imagenes' # total_imagenes
             /\ total_imagenes' > 0 /\ total_imagenes' % batch_size = 0 )
           => opc' = "saveReg" ]_vars

\* C27: the checkpoint file is written only by the coordinator's flush
\* step, which runs when no worker of the pool is queued or running (no
\* worker step writes it), and one flush has ended before the next begins.
C27_FlushByCoordinator ==
    [][ (pipeline = "pdf" /\ (cacheFile' # cacheFile \/ flushed' # "none"))
          => /\ cpc = "flush"
             /\ \A i \in Pdfs : worker[i].pc \notin Running \cup {"queued"}
             /\ worker' = worker /\ processed' = processed
             /\ cpc' # "flush" ]_vars

\* both PDFs were converted and marked by workers, and the flush after the
\* folder has just written them
C27_Witness ==
    /\ pipeline = "pdf" /\ flushed = "ok"
    /\ \A i \in Pdfs : worker[i].resultado = "ok"
    /\ CargarCache(cacheFile) = Pdfs

\* C28: never more than MAX_WORKERS tasks of a folder run at the same time,
\* and the executor never has more than MAX_WORKERS threads.
C28_BoundedWorkers ==
    /\ Cardinality(EnMarcha(pool)) <= MAX_WORKERS
    /\ pool.hilos <= MAX_WORKERS

\* the pool is full and a submitted PDF waits for a thread
C28_Witness ==
    /\ Cardinality(EnMarcha(pool)) = MAX_WORKERS
    /\ \E i \in Items : pool.tarea[i] = "queued"

\* C29: in the OCR generator, a periodic flush that comes after an earlier
\* periodic flush of the same run, and that meets no fault of its own
\* (the registry was just written and the write of the results does not
\* fail), succeeds whatever happened to the earlier one.
C29_LaterFlushSucceeds ==
    [][ ( /\ pipeline = "ocr" /\ opc = "saveRes"
          /\ total_imagenes > batch_size
          /\ flushed = "ok" /\ faults' = faults )
          => flushed' = "ok" ]_vars

\* C30: an image whose OCR transform ended with an error is not marked
\* processed: its id is neither among the ids marked in this run nor in the
\* processed set the run ends with.
C30_FailedTransformNotMarked ==
    pipeline = "ocr" =>
      \A i \in Images :
        (imagen[i].outcome = "Failed" /\ imagen[i].ocr = 1) =>
          i \notin nuevas_procesadas

\* C31: a list operation that returns a listing returns all entries of the
\* folder, in order; it never returns a shorter listing as the complete one.
C31_ListingComplete ==
    listado.pc = "returned" => listado.all = Entradas(1, listado.total)

\* C32: every run of the PDF pipeline that is left undisturbed reaches its
\* final report, every submitted item having an outcome, and no read or
\* upload is attempted more than MAX_RETRIES times.
C32_RunReachesReport ==
    /\ [](\A i \in Pdfs : worker[i].call.attempts <= MAX_RETRIES)
    /\ <>( /\ cpc = "exited" /\ exit = "normal"
           /\ \A i \in Pdfs : Outcome(i) \in {"Skipped", "Succeeded", "Failed"} )

\* C33: dividir_json writes ceil(T/p) batch files, each with 1 to p tasks
\* and all but the last with exactly p, and the batches read in file-number
\* order give back the input list.
C33_DividirPartitions ==
    division.pc = "done" =>
      LET T == Len(division.tasks)
          p == division.tasks_por_archivo
          lotes == division.escritos
      IN /\ Len(lotes) = IF T % p = 0 THEN T \div p ELSE (T \div p) + 1
         /\ \A k \in DOMAIN lotes :
              /\ Len(lotes[k]) \in 1..p
              /\ (k < Len(lotes)) => (Len(lotes[k]) = p)
         /\ Concatenar(lotes) = division.tasks

\* a list that does not fill its last file has been divided into several
C33_Witness ==
    /\ division.pc = "done"
    /\ Len(division.escritos) >= 2
    /\ Len(division.escritos[Len(division.escritos)]) < division.tasks_por_archivo
    /\ \E k \in DOMAIN division.tasks : division.tasks[k] # division.tasks[1]

\* C34: with a destination that held no output before the run, a PDF is
\* never skipped and marked processed without having been converted, also
\* when another PDF of the folder has the same sanitized base name.
C34_SkipOnOwnOutput ==
    \A g \in Gemelos :
      (gemelos.w[g].resultado = "skipped" /\ g \in gemelos.marcados)
        => gemelos.w[g].convertido

\* C35: in the OCR generator, the step that transforms a downloaded image
\* (with or without detections) adds exactly one result record and lets no
\* exception leave the loop over the images.
C35_OneRecordPerImage ==
    [][ ( /\ pipeline = "ocr" /\ opc = "imagen"
          /\ imagen[idx].ocr = 0 /\ imagen'[idx].ocr = 1 )
          => /\ Len(label_studio_tasks') = Len(label_studio_tasks) + 1
             /\ label_studio_tasks'[Len(label_studio_tasks')].id = idx
             /\ exit' # "error" ]_vars

\* C36: every future the coordinator has consumed is counted in exactly
\* one of pdfs_skip, pdfs_procesados and pdfs_con_error, and when the run
\* ends with its report the three counters add up to the tasks submitted.
C36_CountersAddUp ==
    pipeline = "pdf" =>
      /\ pdfs_skip + pdfs_procesados + pdfs_con_error = Cardinality(collected)
      /\ collected \subseteq futures
      /\ exit = "normal" =>
           pdfs_skip + pdfs_procesados + pdfs_con_error = Cardinality(futures)

\* a run has ended with its report after one worker raised and the other
\* finished before or after it
C36_Witness ==
    /\ pipeline = "pdf" /\ exit = "normal"
    /\ Cardinality(futures) = 2
    /\ \E i \in Pdfs : worker[i].resultado = "raised"
    /\ \E i \in Pdfs : worker[i].resultado \in {"ok", "skipped"}

\* C37: within a run the set of processed ids held in memory never loses an
\* id, it contains what was loaded at the start, and a flush that succeeds
\* leaves exactly that set in the checkpoint file: every flush writes a
\* superset of the loaded file and of every earlier flush of the run.
C37_CheckpointGrows ==
    [][ /\ (pipeline = "pdf" /\ run' = run) =>
             /\ processed \subseteq processed'
             /\ cpc' # "init" => loaded' \subseteq processed'
        /\ (pipeline = "pdf" /\ cpc = "flush" /\ flushed' = "ok") =>
             /\ CargarCache(cacheFile') = processed
             /\ loaded \subseteq CargarCache(cacheFile')
        /\ (pipeline = "ocr" /\ run' = run) =>
             (processed_images \cup nuevas_procesadas)
               \subseteq (processed_images' \cup nuevas_procesadas')
        /\ (pipeline = "ocr" /\ opc \in {"saveReg", "finalReg"} /\ flushed' = "ok") =>
             CargarRegistro(regFile') = processed_images \cup nuevas_procesadas ]_vars

\* a second run loaded a non-empty checkpoint and its flush has just
\* written a larger one
C37_Witness ==
    /\ pipeline = "pdf" /\ run = 2 /\ flushed = "ok"
    /\ loaded # {} /\ loaded # CargarCache(cacheFile)
    /\ loaded \subseteq CargarCache(cacheFile)

\* C38: with MAX_IMAGES positive a run produces at most MAX_IMAGES new
\* records; skipped images use up none of the limit (a run that ends with
\* fewer records has looked at every image); and only images with a new
\* record are added to the registry.
C38_LimitRespected ==
    limite.MAX_IMAGES > 0 =>
      /\ Len(limite.label_studio_tasks) <= limite.MAX_IMAGES
      /\ limite.total_imagenes = Len(limite.label_studio_tasks)
      /\ limite.nuevas_procesadas = {i \in Imgs : limite.estado[i] = "task"}
      /\ limite.pc = "done" =>
           /\ Len(limite.label_studio_tasks) < limite.MAX_IMAGES =>
                \A i \in Imgs : limite.estado[i] # "none"
           /\ limite.registro =
                limite.cargadas \cup {i \in Imgs : limite.estado[i] = "task"}
           /\ \A i \in Imgs :
                (limite.estado[i] = "none" /\ i \notin limite.cargadas)
                  => i \notin limite.registro

\* the limit stopped a run that had skipped registered images before it
\* found its two new ones, and later images were left alone
C38_Witness ==
    /\ limite.pc = "done" /\ limite.MAX_IMAGES = 2
    /\ Len(limite.label_studio_tasks) = 2
    /\ limite.imagenes_saltadas >= 1
    /\ \E i \in Imgs : limite.estado[i] = "none" /\ i \notin limite.registro

\* C39: for every permitted MAX_RETRIES, a read or upload that has returned
\* has issued at least one remote call.
C39_AtLeastOneAttempt ==
    reintento.pc = "done" => reintento.attempt >= 1

====
